---- MODULE Spec2Model ----
(***************************************************************************)
(* A model of the slackdump export pipeline: Export.Run and the functions  *)
(* it calls (package export), and withRetry of package slackdump.          *)
(*                                                                         *)
(* The collaborators whose code is not part of the sources at hand (the    *)
(* Downloader, StreamChannels, DumpMessagesRaw, GetUsers, byDate,          *)
(* IndexByID, ExtractFiles, network.WithRetry) are modelled from their     *)
(* documented contract.                                                    *)
(***************************************************************************)
EXTENDS Integers, Sequences, FiniteSets, TLC

VARIABLES
    pc,           \* position of Export.Run: "Run", "messages", "stream", "returned"
    IncludeFiles, \* Options.IncludeFiles
    nChans,       \* number of channels the remote channel listing holds
    userList,     \* the users fetched by se.users
    fs,           \* the files of the export directory: path -> [complete, data]
    dirs,         \* the directories created under the export directory
    chans,        \* the local chans of Export.messages
    streamed,     \* the channels StreamChannels has handed to the callback, each with
                  \* the number of its messages and whether its history request failed
    dl,           \* the Downloader: [running, started, queue, saved]
    result,       \* the error Run returned (Nil: none)
    rt,           \* the call of withRetry in progress
    call,         \* the last call of a function on its own: [op, in, out]
    nw            \* the call of NewWithOptions in progress

vars == <<pc, IncludeFiles, nChans, userList, fs, dirs, chans, streamed, dl, result, rt, call, nw>>

runVars == <<pc, IncludeFiles, nChans, userList, fs, dirs, chans, streamed, dl, result>>

(***************************************************************************)
(* Bounds of the model.                                                    *)
(***************************************************************************)
MaxChans == 2

MaxAttempts == 4

(***************************************************************************)
(* Errors: an error is the sequence of its frames, outermost first; a      *)
(* frame wrapping an error (fmt.Errorf with %w) is put in front of it.     *)
(***************************************************************************)
Nil == <<>>

Frame(msg, name, id) == [msg |-> msg, name |-> name, id |-> id]

Wrap(frame, err) == <<frame>> \o err

Is(err, target) ==
    \E i \in 1..Len(err) : SubSeq(err, i, Len(err)) = target

ErrAPI == <<Frame("remote api error", "", "")>>

ErrIO == <<Frame("i/o error", "", "")>>

ErrTimestamp == <<Frame("invalid timestamp", "", "")>>

ErrNotStarted == <<Frame("downloader: not started", "", "")>>

ErrDownload == <<Frame("downloader: download failed", "", "")>>

errUnknownEntity == <<Frame("encountered an unknown entity", "", "")>>

(***************************************************************************)
(* The data of the workspace.                                              *)
(***************************************************************************)
userPrefix == "IM-"

se_dir == "out"

AllUsers == << [ID |-> "U1", Name |-> "alice"], [ID |-> "U2", Name |-> "bob"] >>

ChanIDs == <<"C1", "C2", "C3", "C4">>

\* The channel records the listing may hold at position i: a channel with
\* or without Name and NameNormalized, or a direct-message channel, which
\* carries no name and whose peer (User) is or is not a user of the workspace.
Channels(i) ==
    { [ID |-> ChanIDs[i], Name |-> n, NameNormalized |-> nn, IsIM |-> FALSE, User |-> ""] :
        n \in {"", "general"}, nn \in {"", "general"} }
    \cup
    { [ID |-> ChanIDs[i], Name |-> "", NameNormalized |-> "", IsIM |-> TRUE, User |-> u] :
        u \in {"U1", "U9"} }

\* The dates of the messages of a history, in the order returned.
HistoryDates ==
    { <<>>, <<"2022-01-01">>, <<"2022-01-01", "2022-01-01", "2022-01-02">> }

\* A history: its i-th message is of date ds[i]; the first one carries an
\* attachment when f.
History(ds, f) ==
    [i \in 1..Len(ds) |->
        [ts |-> i, date |-> ds[i], files |-> IF i = 1 /\ f THEN <<"a.png">> ELSE <<>>]]

Histories == { History(ds, f) : ds \in HistoryDates, f \in BOOLEAN }

\* What the remote service answers to the history request of a channel.
Dumps ==
    { [err |-> Nil, messages |-> h] : h \in Histories }
        \cup { [err |-> ErrAPI, messages |-> <<>>] }

WriteModes == {"ok", "create", "encode"}

NoFault == [kind |-> "none", at |-> "", before |-> {}, mode |-> "ok"]

\* The single fault that may hit the export of one channel.
Faults(h) ==
    LET ds == { h[i].date : i \in 1..Len(h) }
    IN  {NoFault}
        \cup { [kind |-> k, at |-> "", before |-> {}, mode |-> "ok"] :
                 k \in IF h = <<>> THEN {} ELSE {"download", "byDate", "mkdir"} }
        \cup UNION { { [kind |-> "write", at |-> d, before |-> b, mode |-> m] :
                          b \in SUBSET (ds \ {d}), m \in {"create", "encode"} } : d \in ds }

(***************************************************************************)
(* Paths and files.                                                        *)
(***************************************************************************)
\* filepath.Join of two elements: an empty element is ignored.
Join(a, b) ==
    IF a = "" THEN b ELSE IF b = "" THEN a ELSE a \o "/" \o b

Put(f, path, content) == (path :> content) @@ f

Written(f, path) == path \in DOMAIN f /\ f[path].complete

serializeToFile(f, filename, data, mode) ==
    CASE mode = "create" ->
            [fs |-> f,
             err |-> Wrap(Frame("serializeToFile: failed to create", filename, ""), ErrIO)]
      [] mode = "encode" ->
            [fs |-> Put(f, filename, [complete |-> FALSE, data |-> <<>>]),
             err |-> Wrap(Frame("serialize: failed to encode", "", ""), ErrIO)]
      [] OTHER ->
            [fs |-> Put(f, filename, [complete |-> TRUE, data |-> data]),
             err |-> Nil]

basedir(channelName) == Join(se_dir, channelName)

(***************************************************************************)
(* Naming and filtering.                                                   *)
(***************************************************************************)
\* Users.IndexByID: the user index, ID -> user.
IndexByID(ul) ==
    [id \in { ul[i].ID : i \in 1..Len(ul) } |->
        ul[CHOOSE i \in 1..Len(ul) : ul[i].ID = id]]

\* validName looking at IsIM before NameNormalized.
validName_imFirst(ch, uidx) ==
    IF ch.IsIM
    THEN IF ch.User \in DOMAIN uidx
         THEN [name |-> userPrefix \o uidx[ch.User].Name, err |-> Nil]
         ELSE [name |-> userPrefix \o ch.User, err |-> Nil]
    ELSE IF ch.NameNormalized # "" THEN [name |-> ch.NameNormalized, err |-> Nil]
    ELSE [name |-> "", err |-> errUnknownEntity]

\* validName falling back to the bare peer ID, without userPrefix.
validName_bareID(ch, uidx) ==
    IF ch.NameNormalized # "" THEN [name |-> ch.NameNormalized, err |-> Nil]
    ELSE IF ~ch.IsIM THEN [name |-> "", err |-> errUnknownEntity]
    ELSE IF ch.User \in DOMAIN uidx
         THEN [name |-> userPrefix \o uidx[ch.User].Name, err |-> Nil]
         ELSE [name |-> ch.User, err |-> Nil]

\* validName returning the ID of a channel it cannot name, with no error.
validName_channelID(ch, uidx) ==
    IF ch.NameNormalized # "" THEN [name |-> ch.NameNormalized, err |-> Nil]
    ELSE IF ~ch.IsIM THEN [name |-> ch.ID, err |-> Nil]
    ELSE IF ch.User \in DOMAIN uidx
         THEN [name |-> userPrefix \o uidx[ch.User].Name, err |-> Nil]
         ELSE [name |-> userPrefix \o ch.User, err |-> Nil]

validName(ch, uidx) ==
    IF ch.NameNormalized # "" THEN [name |-> ch.NameNormalized, err |-> Nil]
    ELSE IF ~ch.IsIM THEN [name |-> "", err |-> errUnknownEntity]
    ELSE IF ch.User \in DOMAIN uidx
         THEN [name |-> userPrefix \o uidx[ch.User].Name, err |-> Nil]
         ELSE [name |-> userPrefix \o ch.User, err |-> Nil]

\* The filter without its condition: every channel is kept.
filterOutStrangeChannels_keepAll(cs) == cs

\* The filter with its loop starting at the second channel and testing Name only.
filterOutStrangeChannels_fromSecond(cs) ==
    IF cs = <<>> THEN <<>> ELSE SelectSeq(Tail(cs), LAMBDA c : c.Name # "")

filterOutStrangeChannels(cs) ==
    SelectSeq(cs, LAMBDA c : c.Name # "" /\ c.NameNormalized # "")

(***************************************************************************)
(* The Downloader: stopped until Start, then running; DownloadFile queues  *)
(* a file for the workers, or reports ErrNotStarted while stopped.         *)
(***************************************************************************)
NewDownloader == [running |-> FALSE, started |-> FALSE, queue |-> <<>>, saved |-> {}]

Start(d) == [d EXCEPT !.running = TRUE, !.started = TRUE]

DownloadFile(d, dir, f, fault) ==
    IF ~d.running THEN [dl |-> d, err |-> ErrNotStarted]
    ELSE IF fault.kind = "download" THEN [dl |-> d, err |-> ErrDownload]
    ELSE [dl |-> [d EXCEPT !.queue = Append(@, [dir |-> dir, file |-> f])], err |-> Nil]

\* SlackDumper.ExtractFiles: the attachments of a batch of messages.
RECURSIVE ExtractFiles(_)
ExtractFiles(msg) ==
    IF msg = <<>> THEN <<>> ELSE Head(msg).files \o ExtractFiles(Tail(msg))

\* The loop of downloadFn without the test for ErrNotStarted.
RECURSIVE sendFiles_anyErrorFails(_, _, _, _, _)
sendFiles_anyErrorFails(d, dir, files, i, fault) ==
    IF i > Len(files)
    THEN [res |-> [Entity |-> "files", Count |-> Len(files)], err |-> Nil, dl |-> d]
    ELSE LET r == DownloadFile(d, dir, files[i], fault)
         IN  IF r.err # Nil
             THEN [res |-> [Entity |-> "", Count |-> 0], err |-> r.err, dl |-> r.dl]
             ELSE sendFiles_anyErrorFails(r.dl, dir, files, i + 1, fault)

\* The loop of the function downloadFn returns, from file i on.
RECURSIVE sendFiles(_, _, _, _, _)
sendFiles(d, dir, files, i, fault) ==
    IF i > Len(files)
    THEN [res |-> [Entity |-> "files", Count |-> Len(files)], err |-> Nil, dl |-> d]
    ELSE LET r == DownloadFile(d, dir, files[i], fault)
         IN  IF r.err # Nil
             THEN IF Is(r.err, ErrNotStarted)
                  THEN [res |-> [Entity |-> "files", Count |-> 0], err |-> Nil, dl |-> r.dl]
                  ELSE [res |-> [Entity |-> "", Count |-> 0], err |-> r.err, dl |-> r.dl]
             ELSE sendFiles(r.dl, dir, files, i + 1, fault)

\* downloadFn(dl, channelName) applied to a batch of messages.
downloadFn(d, channelName, msg, fault) ==
    LET dir == Join(basedir(channelName), "attachments")
    IN  sendFiles(d, dir, ExtractFiles(msg), 1, fault)

\* SlackDumper.DumpMessagesRaw: the history of a channel, each batch handed to
\* the process function dlFn; a failed request or a failed dlFn fails the dump.
DumpMessagesRaw(d, channelName, dump, fault) ==
    IF dump.err # Nil THEN [messages |-> <<>>, err |-> dump.err, dl |-> d, res |-> <<>>]
    ELSE LET p == downloadFn(d, channelName, dump.messages, fault)
         IN  IF p.err # Nil
             THEN [messages |-> <<>>, dl |-> p.dl, res |-> <<>>,
                   err |-> Wrap(Frame("failed to process messages", "", ""), p.err)]
             ELSE [messages |-> dump.messages, err |-> Nil, dl |-> p.dl, res |-> <<p.res>>]

(***************************************************************************)
(* Writing a channel.                                                      *)
(***************************************************************************)
\* Export.byDate: the messages grouped by date, in the order returned.
byDate(messages, fault) ==
    IF fault.kind = "byDate" THEN [msgs |-> <<>>, err |-> ErrTimestamp]
    ELSE [msgs |-> [d \in { messages[i].date : i \in 1..Len(messages) } |->
                      SelectSeq(messages, LAMBDA m : m.date = d)],
          err |-> Nil]

RECURSIVE SetToSeq(_)
SetToSeq(S) ==
    IF S = {} THEN <<>> ELSE LET x == CHOOSE x \in S : TRUE IN <<x>> \o SetToSeq(S \ {x})

\* The order in which the loop of saveChannel visits the dates of msgs: any
\* order; with a write fault, the dates written before the failing one first.
visitOrder(msgs, fault) ==
    IF fault.kind = "write" /\ fault.at \in DOMAIN msgs
    THEN SetToSeq(fault.before \cap DOMAIN msgs) \o <<fault.at>>
            \o SetToSeq(DOMAIN msgs \ (fault.before \cup {fault.at}))
    ELSE SetToSeq(DOMAIN msgs)

\* The loop of saveChannel returning after the first date it visits.
writeDates_firstOnly(f, dir, msgs, order, fault) ==
    IF order = <<>> THEN [fs |-> f, err |-> Nil]
    ELSE LET date == Head(order)
             mode == IF fault.kind = "write" /\ fault.at = date THEN fault.mode ELSE "ok"
         IN  serializeToFile(f, Join(dir, date \o ".json"), msgs[date], mode)

RECURSIVE writeDates(_, _, _, _, _)
writeDates(f, dir, msgs, order, fault) ==
    IF order = <<>> THEN [fs |-> f, err |-> Nil]
    ELSE LET date == Head(order)
             mode == IF fault.kind = "write" /\ fault.at = date THEN fault.mode ELSE "ok"
             w == serializeToFile(f, Join(dir, date \o ".json"), msgs[date], mode)
         IN  IF w.err # Nil THEN w ELSE writeDates(w.fs, dir, msgs, Tail(order), fault)

saveChannel(f, ds, channelName, msgs, fault) ==
    IF fault.kind = "mkdir"
    THEN [fs |-> f, dirs |-> ds,
          err |-> Wrap(Frame("unable to create directory", channelName, ""), ErrIO)]
    ELSE LET w == writeDates(f, basedir(channelName), msgs, visitOrder(msgs, fault), fault)
         IN  [fs |-> w.fs, dirs |-> ds \cup {basedir(channelName)}, err |-> w.err]

\* exportConversation after the dump, without the test for an empty result set.
exportDumped_noEmptyCheck(ch, ul, d, f, ds, fault) ==
    LET bd == byDate(d.messages, fault)
        vn == validName(ch, IndexByID(ul))
    IN  IF bd.err # Nil
        THEN [err |-> Wrap(Frame("exportChannelData: error", "", ""), bd.err),
              fs |-> f, dirs |-> ds, dl |-> d.dl]
        ELSE IF vn.err # Nil
        THEN [err |-> vn.err, fs |-> f, dirs |-> ds, dl |-> d.dl]
        ELSE LET sv == saveChannel(f, ds, vn.name, bd.msgs, fault)
             IN  [err |-> sv.err, fs |-> sv.fs, dirs |-> sv.dirs, dl |-> d.dl]

\* exportConversation after the dump d succeeded.
exportDumped(ch, ul, d, f, ds, fault) ==
    IF Len(d.messages) = 0 THEN [err |-> Nil, fs |-> f, dirs |-> ds, dl |-> d.dl]
    ELSE LET bd == byDate(d.messages, fault)
             vn == validName(ch, IndexByID(ul))
         IN  IF bd.err # Nil
             THEN [err |-> Wrap(Frame("exportChannelData: error", "", ""), bd.err),
                   fs |-> f, dirs |-> ds, dl |-> d.dl]
             ELSE IF vn.err # Nil
             THEN [err |-> vn.err, fs |-> f, dirs |-> ds, dl |-> d.dl]
             ELSE LET sv == saveChannel(f, ds, vn.name, bd.msgs, fault)
                  IN  [err |-> sv.err, fs |-> sv.fs, dirs |-> sv.dirs, dl |-> d.dl]

\* exportConversation, the error of the dump dropped.
exportConversation_dropDumpErr(ch, ul, d0, f, ds, dump, fault) ==
    LET d == DumpMessagesRaw(d0, ch.Name, dump, fault)
    IN  exportDumped(ch, ul, d, f, ds, fault)

exportConversation(ch, ul, d0, f, ds, dump, fault) ==
    LET d == DumpMessagesRaw(d0, ch.Name, dump, fault)
    IN  IF d.err # Nil
        THEN [err |-> Wrap(Frame("failed dumping", ch.Name, ch.ID), d.err),
              fs |-> f, dirs |-> ds, dl |-> d.dl]
        ELSE exportDumped(ch, ul, d, f, ds, fault)

(***************************************************************************)
(* Export.users.                                                           *)
(***************************************************************************)
\* Export.users, the error of writing users.json dropped.
users_dropWriteErr(f, got, mode) ==
    IF got.err # Nil THEN [users |-> <<>>, err |-> got.err, fs |-> f]
    ELSE LET w == serializeToFile(f, Join(se_dir, "users.json"), got.users, mode)
         IN  [users |-> got.users, err |-> Nil, fs |-> w.fs]

users(f, got, mode) ==
    IF got.err # Nil THEN [users |-> <<>>, err |-> got.err, fs |-> f]
    ELSE LET w == serializeToFile(f, Join(se_dir, "users.json"), got.users, mode)
         IN  IF w.err # Nil THEN [users |-> <<>>, err |-> w.err, fs |-> w.fs]
             ELSE [users |-> got.users, err |-> Nil, fs |-> w.fs]

\* SlackDumper.GetUsers: the users of the workspace, or an error.
GetUsersResults == { [users |-> AllUsers, err |-> Nil], [users |-> <<>>, err |-> ErrAPI] }

(***************************************************************************)
(* Export.messages after the stream of channels ended: the backup, the     *)
(* filter and channels.json.                                               *)
(***************************************************************************)
messagesManifest(f, cs, bkMode, chMode) ==
    LET bk == serializeToFile(f, Join(se_dir, "channels_full.json.bak"), cs, bkMode)
        filtered == filterOutStrangeChannels(cs)
        w == serializeToFile(bk.fs, Join(se_dir, "channels.json"), filtered, chMode)
    IN  [fs |-> w.fs, chans |-> filtered, err |-> w.err]

(***************************************************************************)
(* withRetry.  A function fn fails with the rate-limit signal on its first *)
(* fn.k invocations and then ends as fn.final says ("ok", or "other": an   *)
(* error that is no rate-limit signal).                                    *)
(***************************************************************************)
MaxFails == 4

Fns == [k : 0..MaxFails, final : {"ok", "other"}]

ErrRetryFailed == <<Frame("callback was not able to complete without errors within the allowed number of retries", "", "")>>

ErrOther == <<Frame("remote call failed", "", "")>>

ErrCancelled == <<Frame("context canceled", "", "")>>

\* What invocation number i of fn returns.
Outcome(fn, i) == IF i <= fn.k THEN "ratelimited" ELSE fn.final

\* network.WithRetry at its start: no attempt made yet.
WithRetry(maxAttempts, fn) ==
    [state |-> "running", maxAttempts |-> maxAttempts, fn |-> fn, calls |-> 0, err |-> Nil]

\* withRetry handing one attempt less to network.WithRetry.
withRetry_oneLess(maxAttempts, fn) == WithRetry(maxAttempts - 1, fn)

withRetry(maxAttempts, fn) == WithRetry(maxAttempts, fn)

RtIdle ==
    [asked |-> 0, run |-> [state |-> "idle", maxAttempts |-> 0, fn |-> [k |-> 0, final |-> "ok"],
                           calls |-> 0, err |-> Nil]]

\* The start of a call withRetry(ctx, l, maxAttempts, fn).
RetryStart ==
    /\ rt.run.state = "idle"
    /\ \E m \in 1..MaxAttempts, fn \in Fns :
         rt' = [asked |-> m, run |-> withRetry(m, fn)]
    /\ UNCHANGED <<runVars, call, nw>>

\* One attempt: the wait for the limiter, then fn; a rate-limit signal is
\* slept on and leads to the next attempt, any other result ends the call.
RetryAttempt ==
    /\ rt.run.state = "running"
    /\ rt.run.calls < rt.run.maxAttempts
    /\ LET o == Outcome(rt.run.fn, rt.run.calls + 1)
       IN  rt' = [rt EXCEPT !.run.calls = @ + 1,
                            !.run.state = IF o = "ratelimited" THEN "running" ELSE "done",
                            !.run.err = IF o = "other" THEN ErrOther ELSE Nil]
    /\ UNCHANGED <<runVars, call, nw>>

\* The attempts are used up.
RetryExhausted ==
    /\ rt.run.state = "running"
    /\ rt.run.calls >= rt.run.maxAttempts
    /\ rt' = [rt EXCEPT !.run.state = "done", !.run.err = ErrRetryFailed]
    /\ UNCHANGED <<runVars, call, nw>>

\* The context is cancelled while the call waits for the limiter.
RetryCancelled ==
    /\ rt.run.state = "running"
    /\ rt.run.calls < rt.run.maxAttempts
    /\ rt' = [rt EXCEPT !.run.state = "done", !.run.err = ErrCancelled]
    /\ UNCHANGED <<runVars, call, nw>>

(***************************************************************************)
(* The run of the export.                                                  *)
(***************************************************************************)
\* No function called on its own yet.
CallIdle == [op |-> "none", in |-> <<>>, out |-> <<>>]

\* NewWithOptions not called yet.
NoDumper == [present |-> FALSE, client |-> [token |-> "", cookies |-> <<>>], teamID |-> "",
             Users |-> <<>>, UserIndex |-> <<>>]

NwIdle ==
    [pc |-> "idle", provider |-> [token |-> "", cookies |-> <<>>], log |-> <<>>,
     validated |-> Nil, client |-> [token |-> "", cookies |-> <<>>], teamID |-> "",
     fetched |-> <<>>, sd |-> NoDumper, err |-> Nil]

\* The callback appending the channel whatever exportConversation returned.
appendExported_always(cs, ch, err) == Append(cs, ch)

\* The callback of Export.messages after exportConversation returned err: the
\* channel is appended to chans unless err is an error.
appendExported(cs, ch, err) == IF err # Nil THEN cs ELSE Append(cs, ch)

Init ==
    /\ pc = "Run"
    /\ IncludeFiles \in BOOLEAN
    /\ nChans \in 0..MaxChans
    /\ userList = <<>>
    /\ fs = <<>>
    /\ dirs = {}
    /\ chans = <<>>
    /\ streamed = <<>>
    /\ dl = NewDownloader
    /\ result = Nil
    /\ rt = RtIdle
    /\ call = CallIdle
    /\ nw = NwIdle

\* Run, up to the call of se.messages.
RunUsers ==
    /\ pc = "Run"
    /\ \E got \in GetUsersResults, mode \in WriteModes :
         LET r == users(fs, got, mode)
         IN  /\ fs' = r.fs
             /\ userList' = r.users
             /\ IF r.err # Nil
                THEN pc' = "returned" /\ result' = r.err
                ELSE pc' = "messages" /\ result' = result
    /\ UNCHANGED <<IncludeFiles, nChans, dirs, chans, streamed, dl, rt, call, nw>>

\* Export.messages, up to the call of StreamChannels.
MessagesStart ==
    /\ pc = "messages"
    /\ chans' = <<>>
    /\ dl' = IF IncludeFiles THEN Start(NewDownloader) ELSE NewDownloader
    /\ pc' = "stream"
    /\ UNCHANGED <<IncludeFiles, nChans, userList, fs, dirs, streamed, result, rt, call, nw>>

\* StreamChannels hands the next channel to the callback of Export.messages; an
\* error of the callback ends the stream and is the error of StreamChannels.
StreamChannel ==
    /\ pc = "stream"
    /\ Len(streamed) < nChans
    /\ \E ch \in Channels(Len(streamed) + 1), dump \in Dumps :
         \E fault \in Faults(dump.messages) :
           LET r == exportConversation(ch, userList, dl, fs, dirs, dump, fault)
           IN  /\ streamed' = Append(streamed, [ch |-> ch, nmsgs |-> Len(dump.messages),
                                                fetchFailed |-> dump.err # Nil])
               /\ fs' = r.fs
               /\ dirs' = r.dirs
               /\ dl' = r.dl
               /\ IF r.err # Nil
                  THEN /\ chans' = appendExported(chans, ch, r.err)
                       /\ pc' = "returned"
                       /\ result' = Wrap(Frame("channels: error", "", ""), r.err)
                  ELSE /\ chans' = appendExported(chans, ch, r.err)
                       /\ pc' = pc
                       /\ result' = result
    /\ UNCHANGED <<IncludeFiles, nChans, userList, rt, call, nw>>

\* StreamChannels fails to fetch a page of the channel listing.
StreamFail ==
    /\ pc = "stream"
    /\ Len(streamed) < nChans
    /\ pc' = "returned"
    /\ result' = Wrap(Frame("channels: error", "", ""), ErrAPI)
    /\ UNCHANGED <<IncludeFiles, nChans, userList, fs, dirs, chans, streamed, dl, rt, call, nw>>

\* Export.messages after StreamChannels returned without error, and the return of Run.
MessagesFinish ==
    /\ pc = "stream"
    /\ Len(streamed) = nChans
    /\ \E bkMode \in WriteModes, chMode \in WriteModes :
         LET m == messagesManifest(fs, chans, bkMode, chMode)
         IN  /\ fs' = m.fs
             /\ chans' = m.chans
             /\ result' = m.err
    /\ pc' = "returned"
    /\ UNCHANGED <<IncludeFiles, nChans, userList, dirs, streamed, dl, rt, call, nw>>

\* A worker of the Downloader takes a file from the queue and saves it.
DownloaderWorker ==
    /\ dl.running
    /\ dl.queue # <<>>
    /\ dl' = [dl EXCEPT !.queue = Tail(@), !.saved = @ \cup {Head(dl.queue)}]
    /\ UNCHANGED <<pc, IncludeFiles, nChans, userList, fs, dirs, chans, streamed, result, rt, call, nw>>

Next ==
    \/ RunUsers
    \/ MessagesStart
    \/ StreamChannel
    \/ StreamFail
    \/ MessagesFinish
    \/ DownloaderWorker

Spec == Init /\ [][Next]_vars

NextRetry ==
    \/ RetryStart
    \/ RetryAttempt
    \/ RetryExhausted
    \/ RetryCancelled

SpecRetry == Init /\ [][NextRetry]_vars

(***************************************************************************)
(* The functions of the export called on their own, on inputs drawn from   *)
(* the sets below.                                                         *)
(***************************************************************************)
MaxList == 2

FnChannels ==
    [ID : {"C1"}, Name : {"", "general", "General"}, NameNormalized : {"", "general"},
     IsIM : BOOLEAN, User : {"", "U1", "U9"}]

FnUserLists == { SubSeq(AllUsers, 1, n) : n \in 0..Len(AllUsers) }

\* The channel lists of at most MaxList channels.
FnChannelLists ==
    UNION { { [i \in 1..n |-> pick[i]] : pick \in [1..n -> Channels(1)] } : n \in 0..MaxList }

CallValidName ==
    /\ call.op = "none"
    /\ \E ch \in FnChannels, ul \in FnUserLists :
         call' = [op |-> "validName", in |-> [ch |-> ch, users |-> ul],
                  out |-> validName(ch, IndexByID(ul))]
    /\ UNCHANGED <<runVars, rt, nw>>

CallFilter ==
    /\ call.op = "none"
    /\ \E cs \in FnChannelLists :
         call' = [op |-> "filter", in |-> cs, out |-> filterOutStrangeChannels(cs)]
    /\ UNCHANGED <<runVars, rt, nw>>

\* The filter applied to the list it returned.
CallFilterAgain ==
    /\ call.op = "filter"
    /\ call' = [op |-> "filterAgain", in |-> call.out, first |-> call.in,
                out |-> filterOutStrangeChannels(call.out)]
    /\ UNCHANGED <<runVars, rt, nw>>

MaxHist == 3

\* The histories of at most MaxHist messages, each of one of two dates.
FnHistories ==
    UNION { { [i \in 1..n |-> [ts |-> i, date |-> ds[i], files |-> <<>>]] :
                ds \in [1..n -> {"2022-01-01", "2022-01-02"}] } : n \in 0..MaxHist }

\* downloadFn(dl, channelName) called on a batch of messages, and
\* DumpMessagesRaw called with it on a history that holds this batch.
CallDownloadFn ==
    /\ call.op = "none"
    /\ \E d \in {NewDownloader, Start(NewDownloader)}, name \in {"", "general"},
          h \in Histories, k \in {"none", "download"} :
         LET fault == [NoFault EXCEPT !.kind = k]
         IN  call' = [op |-> "downloadFn",
                      in |-> [dl |-> d, name |-> name, msg |-> h, fault |-> k],
                      out |-> downloadFn(d, name, h, fault),
                      dump |-> DumpMessagesRaw(d, name, [err |-> Nil, messages |-> h], fault)]
    /\ UNCHANGED <<runVars, rt, nw>>

\* byDate and saveChannel called on a history, in an empty export directory.
CallSaveChannel ==
    /\ call.op = "none"
    /\ \E h \in FnHistories, name \in {"general", "IM-alice"} :
         LET bd == byDate(h, NoFault)
         IN  call' = [op |-> "saveChannel",
                      in |-> [messages |-> h, name |-> name],
                      keys |-> DOMAIN bd.msgs,
                      out |-> saveChannel(<<>>, {}, name, bd.msgs, NoFault)]
    /\ UNCHANGED <<runVars, rt, nw>>

(***************************************************************************)
(* auth.NewCookieFileAuth.  A cookie file is what cookiemonster.ParseFile  *)
(* makes of it: an error, or pointers to its cookies in file order.        *)
(***************************************************************************)
ErrNoToken == <<Frame("no token", "", "")>>

ErrParse == <<Frame("cookie file: parse error", "", "")>>

Ptr(c) == [ptr |-> c]

CookieFiles ==
    { [err |-> ErrParse, cookies |-> <<>>] }
      \cup { [err |-> Nil, cookies |-> cc] :
               cc \in { <<>>, <<Ptr("d=1")>>, <<Ptr("d=1"), Ptr("ds=2")>>,
                        <<Ptr("ds=2"), Ptr("d=1")>> } }

EmptyProvider == [token |-> "", cookies |-> <<>>]

deRefCookies(cc) == [i \in 1..Len(cc) |-> cc[i].ptr]

\* NewCookieFileAuth parsing the cookie file before it looks at the token.
NewCookieFileAuth_parseFirst(token, file) ==
    IF file.err # Nil
    THEN [provider |-> EmptyProvider, err |-> file.err, parsed |-> TRUE]
    ELSE IF token = ""
    THEN [provider |-> EmptyProvider, err |-> ErrNoToken, parsed |-> TRUE]
    ELSE [provider |-> [token |-> token, cookies |-> deRefCookies(file.cookies)],
          err |-> Nil, parsed |-> TRUE]

\* parsed: whether cookiemonster.ParseFile was called.
NewCookieFileAuth(token, file) ==
    IF token = ""
    THEN [provider |-> EmptyProvider, err |-> ErrNoToken, parsed |-> FALSE]
    ELSE IF file.err # Nil
    THEN [provider |-> EmptyProvider, err |-> file.err, parsed |-> TRUE]
    ELSE [provider |-> [token |-> token, cookies |-> deRefCookies(file.cookies)],
          err |-> Nil, parsed |-> TRUE]

CallNewCookieFileAuth ==
    /\ call.op = "none"
    /\ \E token \in {"", "xoxc-1"}, file \in CookieFiles :
         call' = [op |-> "NewCookieFileAuth", in |-> [token |-> token, file |-> file],
                  out |-> NewCookieFileAuth(token, file)]
    /\ UNCHANGED <<runVars, rt, nw>>

NextFn ==
    \/ CallDownloadFn
    \/ CallSaveChannel
    \/ CallNewCookieFileAuth
    \/ CallValidName
    \/ CallFilter
    \/ CallFilterAgain

SpecFn == Init /\ [][NextFn]_vars

(***************************************************************************)
(* NewWithOptions.  nw.log lists the calls made so far: Validate of the    *)
(* auth provider and the remote calls GetTeamInfo and GetUsers.            *)
(***************************************************************************)
Providers == [token : {"", "xoxc-1"}, cookies : {<<>>, <<"d=1">>, <<"d=1", "ds=2">>}]

toPtrCookies(cc) == [i \in 1..Len(cc) |-> Ptr(cc[i])]

\* NewWithOptions after authProvider.Validate, its error ignored.
newValidated_ignoreErr(n, verr) ==
    [n EXCEPT !.pc = "teaminfo",
              !.client = [token |-> n.provider.token,
                          cookies |-> toPtrCookies(n.provider.cookies)]]

\* NewWithOptions after authProvider.Validate returned verr.
newValidated(n, verr) ==
    IF verr # Nil
    THEN [n EXCEPT !.pc = "returned", !.err = verr]
    ELSE [n EXCEPT !.pc = "teaminfo",
                   !.client = [token |-> n.provider.token,
                               cookies |-> toPtrCookies(n.provider.cookies)]]

\* NewWithOptions after GetTeamInfoContext returned ti.
newTeamInfo(n, ti) ==
    IF ti.err # Nil
    THEN [n EXCEPT !.pc = "returned", !.err = ti.err]
    ELSE [n EXCEPT !.pc = "users", !.teamID = ti.ID]

\* NewWithOptions after sd.GetUsers returned got.
newUsers(n, got) ==
    IF got.err # Nil
    THEN [n EXCEPT !.pc = "returned",
                   !.err = Wrap(Frame("error fetching users", "", ""), got.err)]
    ELSE [n EXCEPT !.pc = "returned",
                   !.sd = [present |-> TRUE, client |-> n.client, teamID |-> n.teamID,
                           Users |-> got.users, UserIndex |-> IndexByID(got.users)]]

NewStart ==
    /\ nw.pc = "idle"
    /\ \E p \in Providers : nw' = [nw EXCEPT !.pc = "validate", !.provider = p]
    /\ UNCHANGED <<runVars, rt, call>>

\* authProvider.Validate: it fails without a token, and may fail otherwise.
NewValidate ==
    /\ nw.pc = "validate"
    /\ \E verr \in {Nil, ErrNoToken} :
         /\ nw.provider.token = "" => verr # Nil
         /\ nw' = newValidated([nw EXCEPT !.log = Append(@, "Validate"), !.validated = verr],
                               verr)
    /\ UNCHANGED <<runVars, rt, call>>

NewTeamInfo ==
    /\ nw.pc = "teaminfo"
    /\ \E ti \in { [err |-> ErrAPI, ID |-> ""], [err |-> Nil, ID |-> "T1"], [err |-> Nil, ID |-> "T2"] } :
         nw' = newTeamInfo([nw EXCEPT !.log = Append(@, "GetTeamInfo")], ti)
    /\ UNCHANGED <<runVars, rt, call>>

NewGetUsers ==
    /\ nw.pc = "users"
    /\ \E got \in { [users |-> ul, err |-> Nil] : ul \in FnUserLists }
                    \cup { [users |-> <<>>, err |-> ErrAPI] } :
         nw' = newUsers([nw EXCEPT !.log = Append(@, "GetUsers"), !.fetched = got.users], got)
    /\ UNCHANGED <<runVars, rt, call>>

NextNew ==
    \/ NewStart
    \/ NewValidate
    \/ NewTeamInfo
    \/ NewGetUsers

SpecNew == Init /\ [][NextNew]_vars

(***************************************************************************)
(* Definitions the properties share.                                       *)
(***************************************************************************)
UsersFile == Join(se_dir, "users.json")

BackupFile == Join(se_dir, "channels_full.json.bak")

ManifestFile == Join(se_dir, "channels.json")

Returned == pc = "returned"

\* The channels handed to the callback so far, in the order of the stream.
StreamedChans == [i \in 1..Len(streamed) |-> streamed[i].ch]

InSeq(x, sq) == \E i \in 1..Len(sq) : sq[i] = x

\* A streamed channel with messages that validName cannot name.
UnknownEntity(e) ==
    e.nmsgs > 0 /\ e.ch.NameNormalized = "" /\ ~e.ch.IsIM

\* A record with neither Name nor NameNormalized that is no direct-message channel.
Strange(c) == c.Name = "" /\ c.NameNormalized = "" /\ ~c.IsIM

\* The run met no failure other than, possibly, the unknown-entity condition.
NoOtherFailure == result = Nil \/ Is(result, errUnknownEntity)

(***************************************************************************)
(* C1.  A streamed channel with messages, an empty NameNormalized and      *)
(* IsIM = false is skipped without aborting the run: every channel of the  *)
(* listing is still handed to the callback, channels.json is written and   *)
(* Run returns no error.                                                   *)
(***************************************************************************)
C1_UnknownEntityIsSkipped ==
    (/\ Returned
     /\ NoOtherFailure
     /\ \E i \in 1..Len(streamed) : UnknownEntity(streamed[i]))
    => (/\ Len(streamed) = nChans
        /\ Written(fs, ManifestFile)
        /\ result = Nil)

(***************************************************************************)
(* C2.  The filter drops a channel if and only if it misses both Name and  *)
(* NameNormalized: channels.json of a successful run holds exactly the     *)
(* exported channels, in order, with a non-empty Name or NameNormalized.   *)
(***************************************************************************)
C2_FilterDropsOnlyIfBothMissing ==
    (Returned /\ result = Nil)
    => (/\ Written(fs, ManifestFile)
        /\ fs[ManifestFile].data =
             SelectSeq(StreamedChans, LAMBDA c : c.Name # "" \/ c.NameNormalized # ""))

(***************************************************************************)
(* C3.  When file export is enabled and the export started the Downloader, *)
(* the Downloader is stopped again, its queue drained, when Run returns.   *)
(***************************************************************************)
C3_DownloaderStoppedOnReturn ==
    (Returned /\ IncludeFiles /\ dl.started)
    => (~dl.running /\ dl.queue = <<>>)

(***************************************************************************)
(* C4.  The scenario of C4: the stream holds a named public channel and a  *)
(* direct-message channel whose peer is in the user index, each with       *)
(* messages, and the run succeeds.                                         *)
(***************************************************************************)
PublicAndIM ==
    /\ Returned
    /\ result = Nil
    /\ Len(streamed) = 2
    /\ \A i \in 1..2 : streamed[i].nmsgs > 0
    /\ \E i \in 1..2 : /\ ~streamed[i].ch.IsIM
                       /\ streamed[i].ch.Name # ""
                       /\ streamed[i].ch.NameNormalized # ""
    /\ \E i \in 1..2 : /\ streamed[i].ch.IsIM
                       /\ streamed[i].ch.NameNormalized = ""
                       /\ streamed[i].ch.User \in DOMAIN IndexByID(userList)

\* C4 as stated: channels.json lists both channels, the direct-message channel too.
C4_ManifestListsPublicAndIM ==
    PublicAndIM
    => (/\ Written(fs, ManifestFile)
        /\ Len(fs[ManifestFile].data) = 2
        /\ \A i \in 1..2 : InSeq(streamed[i].ch, fs[ManifestFile].data))

\* C4 amended: in that scenario channels.json lists the named public channel
\* only (1 entry); the direct-message channel, written under IM-<peername>,
\* has neither Name nor NameNormalized and is filtered out of channels.json.
C4_ManifestListsPublicOnly ==
    PublicAndIM
    => (/\ Written(fs, ManifestFile)
        /\ Len(fs[ManifestFile].data) = 1
        /\ \A i \in 1..2 :
             IF streamed[i].ch.IsIM
             THEN /\ ~InSeq(streamed[i].ch, fs[ManifestFile].data)
                  /\ basedir(userPrefix \o IndexByID(userList)[streamed[i].ch.User].Name) \in dirs
             ELSE InSeq(streamed[i].ch, fs[ManifestFile].data))

C4_Witness == PublicAndIM /\ Written(fs, ManifestFile)

(***************************************************************************)
(* C5.  The directory handed to the Downloader for the attachments of an   *)
(* exported channel is the attachments subdirectory of the directory the   *)
(* message files of the channel are written to.                            *)
(***************************************************************************)
C5_AttachmentsUnderChannelDir ==
    (Returned /\ result = Nil)
    => \A item \in dl.saved \cup { dl.queue[i] : i \in 1..Len(dl.queue) } :
          \E d \in dirs : item.dir = Join(d, "attachments")

(***************************************************************************)
(* C6.  A failure to write an output document is fatal: when Run returns   *)
(* no error, users.json, channels_full.json.bak and channels.json and every*)
(* per-date file were written in full.                                     *)
(***************************************************************************)
C6_WriteFailureIsFatal ==
    (Returned /\ result = Nil)
    => (/\ Written(fs, UsersFile)
        /\ Written(fs, BackupFile)
        /\ Written(fs, ManifestFile)
        /\ \A path \in DOMAIN fs : fs[path].complete)

(***************************************************************************)
(* C7.  A streamed record with empty Name, empty NameNormalized and        *)
(* IsIM = false is, at the end of the run, in channels_full.json.bak and   *)
(* not in channels.json.                                                   *)
(***************************************************************************)
C7_StrangeRecordOnlyInBackup ==
    (/\ Returned
     /\ NoOtherFailure)
    => \A i \in 1..Len(streamed) :
          Strange(streamed[i].ch)
          => (/\ Written(fs, BackupFile)
              /\ InSeq(streamed[i].ch, fs[BackupFile].data)
              /\ Written(fs, ManifestFile)
              /\ ~InSeq(streamed[i].ch, fs[ManifestFile].data))

(***************************************************************************)
(* C8.  withRetry on a function that fails with the rate-limit signal k    *)
(* times and then succeeds: with max-attempts >= k+1 the call succeeds     *)
(* after exactly k+1 invocations; with max-attempts <= k it fails with the *)
(* retry-exhausted error; the function is never invoked more than          *)
(* max-attempts times.                                                     *)
(***************************************************************************)
C8_RetryPolicy ==
    /\ rt.run.calls <= rt.asked
    /\ (/\ rt.run.state = "done"
        /\ rt.run.fn.final = "ok"
        /\ rt.run.err # ErrCancelled)
       => IF rt.asked >= rt.run.fn.k + 1
          THEN rt.run.err = Nil /\ rt.run.calls = rt.run.fn.k + 1
          ELSE rt.run.err = ErrRetryFailed

C8_Witness ==
    /\ rt.run.state = "done"
    /\ rt.run.fn.final = "ok"
    /\ rt.run.fn.k = 2
    /\ rt.asked = 3
    /\ rt.run.calls = 3
    /\ rt.run.err = Nil

(***************************************************************************)
(* C9.  A failed history request aborts the run: Run returns an error that *)
(* wraps the cause and names the channel (name and ID), no later channel   *)
(* of the stream has its history requested, and neither                    *)
(* channels_full.json.bak nor channels.json is written.                    *)
(***************************************************************************)
C9_FetchFailureAborts ==
    \A i \in 1..Len(streamed) :
        streamed[i].fetchFailed
        => (/\ Returned
            /\ i = Len(streamed)
            /\ Is(result, ErrAPI)
            /\ \E j \in 1..Len(result) :
                  /\ result[j].name = streamed[i].ch.Name
                  /\ result[j].id = streamed[i].ch.ID
            /\ BackupFile \notin DOMAIN fs
            /\ ManifestFile \notin DOMAIN fs)

C9_Witness ==
    /\ Returned
    /\ Len(streamed) = 1
    /\ streamed[1].fetchFailed
    /\ nChans > 1

(***************************************************************************)
(* C10.  Users come first: the Downloader is started, a channel streamed   *)
(* or a manifest written only after the users were fetched and users.json  *)
(* written; when fetching the users or writing users.json fails, Run       *)
(* returns that error and none of these happens.                           *)
(***************************************************************************)
UsersFailures ==
    { ErrAPI,
      serializeToFile(<<>>, UsersFile, <<>>, "create").err,
      serializeToFile(<<>>, UsersFile, <<>>, "encode").err }

C10_UsersFirst ==
    /\ (\/ dl.started
        \/ streamed # <<>>
        \/ pc = "stream"
        \/ BackupFile \in DOMAIN fs
        \/ ManifestFile \in DOMAIN fs)
       => (Written(fs, UsersFile) /\ fs[UsersFile].data = userList /\ userList = AllUsers)
    /\ (pc # "Run" /\ ~Written(fs, UsersFile))
       => (/\ Returned
           /\ result \in UsersFailures
           /\ ~dl.started
           /\ streamed = <<>>
           /\ BackupFile \notin DOMAIN fs
           /\ ManifestFile \notin DOMAIN fs)

C10_Witness ==
    /\ Returned
    /\ UsersFile \in DOMAIN fs
    /\ ~fs[UsersFile].complete
    /\ result # Nil

(***************************************************************************)
(* C13.  For a channel with a non-empty NameNormalized, validName returns  *)
(* exactly NameNormalized and no error, whatever IsIM, User and the user   *)
(* index are.                                                              *)
(***************************************************************************)
C13_NameNormalizedWins ==
    (call.op = "validName" /\ call.in.ch.NameNormalized # "")
    => call.out = [name |-> call.in.ch.NameNormalized, err |-> Nil]

C13_Witness ==
    /\ call.op = "validName"
    /\ call.in.ch.NameNormalized = "general"
    /\ call.in.ch.IsIM
    /\ call.in.ch.User = "U1"
    /\ call.in.users = AllUsers
    /\ call.out.name = "general"

(***************************************************************************)
(* C14.  For a direct-message channel (IsIM, empty NameNormalized),        *)
(* validName returns IM-<peerName> when the peer ID is in the user index   *)
(* and IM-<peerID> when it is not, without error.                          *)
(***************************************************************************)
PeerIn(ul, id) == \E i \in 1..Len(ul) : ul[i].ID = id

PeerName(ul, id) == ul[CHOOSE i \in 1..Len(ul) : ul[i].ID = id].Name

C14_IMNames ==
    (call.op = "validName" /\ call.in.ch.IsIM /\ call.in.ch.NameNormalized = "")
    => (/\ call.out.err = Nil
        /\ call.out.name =
             IF PeerIn(call.in.users, call.in.ch.User)
             THEN "IM-" \o PeerName(call.in.users, call.in.ch.User)
             ELSE "IM-" \o call.in.ch.User)

C14_Witness ==
    /\ call.op = "validName"
    /\ call.in.ch.IsIM
    /\ call.in.ch.NameNormalized = ""
    /\ call.in.ch.User = "U9"
    /\ call.in.users = AllUsers
    /\ call.out = [name |-> "IM-U9", err |-> Nil]

(***************************************************************************)
(* C15.  For a channel with empty Name and empty NameNormalized that is    *)
(* not a direct-message channel, validName fails with the unknown-entity   *)
(* error and returns an empty name.                                        *)
(***************************************************************************)
C15_UnknownEntity ==
    (/\ call.op = "validName"
     /\ call.in.ch.Name = ""
     /\ call.in.ch.NameNormalized = ""
     /\ ~call.in.ch.IsIM)
    => call.out = [name |-> "", err |-> errUnknownEntity]

C15_Witness ==
    /\ call.op = "validName"
    /\ call.in.ch.Name = ""
    /\ call.in.ch.NameNormalized = ""
    /\ ~call.in.ch.IsIM
    /\ call.out.err = errUnknownEntity

(***************************************************************************)
(* C16.  The filter is idempotent: the filter applied to a list it         *)
(* returned returns that list, the same channels in the same order.        *)
(***************************************************************************)
C16_FilterIdempotent ==
    call.op = "filterAgain" => call.out = call.in

C16_Witness ==
    /\ call.op = "filterAgain"
    /\ Len(call.first) = 2
    /\ Len(call.in) = 1
    /\ call.out = call.in

(***************************************************************************)
(* C11.  With the Downloader not started, the function of downloadFn       *)
(* returns count 0 and no error for every batch, so that the dump goes on  *)
(* and returns the messages; with the Downloader running, a failed         *)
(* DownloadFile is returned as an error and fails the dump.                *)
(***************************************************************************)
C11_NotStartedIsNoError ==
    call.op = "downloadFn"
    => (/\ ~call.in.dl.running
           => (/\ call.out.err = Nil
               /\ call.out.res = [Entity |-> "files", Count |-> 0]
               /\ call.out.dl = call.in.dl
               /\ call.dump.err = Nil
               /\ call.dump.messages = call.in.msg)
        /\ (/\ call.in.dl.running
            /\ call.in.fault = "download"
            /\ ExtractFiles(call.in.msg) # <<>>)
           => (/\ call.out.err = ErrDownload
               /\ Is(call.dump.err, ErrDownload)))

C11_Witness ==
    /\ call.op = "downloadFn"
    /\ ~call.in.dl.running
    /\ ExtractFiles(call.in.msg) # <<>>
    /\ call.out.err = Nil
    /\ call.out.res.Count = 0

(***************************************************************************)
(* C17.  saveChannel writes exactly one file <date>.json per date key, and *)
(* every message of the input is in exactly one of these files, the one of *)
(* its date, exactly once; the files hold nothing else.                    *)
(***************************************************************************)
Occurrences(f, m) ==
    { pj \in UNION { { <<path, j>> : j \in 1..Len(f[path].data) } : path \in DOMAIN f } :
        f[pj[1]].data[pj[2]] = m }

DateFile(name, date) == Join(basedir(name), date \o ".json")

C17_DateFilesPartition ==
    call.op = "saveChannel"
    => LET h == call.in.messages
           f == call.out.fs
       IN  /\ call.out.err = Nil
           /\ call.keys = { h[i].date : i \in 1..Len(h) }
           /\ DOMAIN f = { DateFile(call.in.name, d) : d \in call.keys }
           /\ Cardinality(DOMAIN f) = Cardinality(call.keys)
           /\ \A i \in 1..Len(h) :
                Occurrences(f, h[i]) =
                  { <<DateFile(call.in.name, h[i].date),
                      Cardinality({ j \in 1..i : h[j].date = h[i].date })>> }
           /\ \A path \in DOMAIN f :
                /\ f[path].complete
                /\ \A j \in 1..Len(f[path].data) : \E i \in 1..Len(h) : f[path].data[j] = h[i]

C17_Witness ==
    /\ call.op = "saveChannel"
    /\ Len(call.in.messages) = 3
    /\ Cardinality(call.keys) = 2
    /\ Cardinality(DOMAIN call.out.fs) = 2

(***************************************************************************)
(* C19.  NewCookieFileAuth: an empty token gives ErrNoToken without the    *)
(* cookie file being read; a cookie file that fails to parse gives that    *)
(* error; an error never comes with a usable provider; otherwise the       *)
(* provider carries the token and the parsed cookies in file order.        *)
(***************************************************************************)
C19_CookieFileAuth ==
    call.op = "NewCookieFileAuth"
    => LET token == call.in.token
           file == call.in.file
           out == call.out
       IN  /\ token = "" => (out.err = ErrNoToken /\ ~out.parsed)
           /\ (token # "" /\ file.err # Nil) => out.err = file.err
           /\ out.err # Nil => out.provider = EmptyProvider
           /\ (token # "" /\ file.err = Nil)
              => (/\ out.err = Nil
                  /\ out.provider.token = token
                  /\ Len(out.provider.cookies) = Len(file.cookies)
                  /\ \A i \in 1..Len(file.cookies) :
                        out.provider.cookies[i] = file.cookies[i].ptr)

C19_Witness ==
    /\ call.op = "NewCookieFileAuth"
    /\ call.in.token = "xoxc-1"
    /\ call.in.file.err = Nil
    /\ call.out.err = Nil
    /\ call.out.provider.cookies = <<"ds=2", "d=1">>

(***************************************************************************)
(* C12.  A channel whose history holds no message produces no output: the  *)
(* step that exports it creates no directory and writes no file, attempts  *)
(* no name resolution and so raises no error, even for a channel without   *)
(* a name; the channel is recorded and the stream goes on.                 *)
(***************************************************************************)
C12_EmptyChannelNoOutput ==
    [][ (/\ Len(streamed') = Len(streamed) + 1
         /\ streamed'[Len(streamed')].nmsgs = 0
         /\ ~streamed'[Len(streamed')].fetchFailed)
        => (/\ fs' = fs
            /\ dirs' = dirs
            /\ dl' = dl
            /\ result' = Nil
            /\ pc' = "stream"
            /\ chans' = Append(chans, streamed'[Len(streamed')].ch)) ]_vars

C12_Witness ==
    /\ pc = "stream"
    /\ Len(streamed) = 1
    /\ streamed[1].nmsgs = 0
    /\ ~streamed[1].fetchFailed
    /\ Strange(streamed[1].ch)
    /\ dirs = {}
    /\ DOMAIN fs = {UsersFile}

(***************************************************************************)
(* C18.  NewWithOptions validates the auth provider before any remote      *)
(* call; when Validate fails no remote call is made and no SlackDumper is  *)
(* returned; a SlackDumper that is returned has its Users and its          *)
(* UserIndex populated from the one successful fetch of the users.         *)
(***************************************************************************)
C18_ValidateFirst ==
    /\ nw.log # <<>> => nw.log[1] = "Validate"
    /\ \A i \in 2..Len(nw.log) : nw.log[i] # "Validate" /\ nw.validated = Nil
    /\ (nw.pc \notin {"idle", "validate"} /\ nw.validated # Nil)
       => (/\ nw.pc = "returned"
           /\ nw.log = <<"Validate">>
           /\ nw.err = nw.validated
           /\ ~nw.sd.present)
    /\ nw.sd.present
       => (/\ nw.pc = "returned"
           /\ nw.err = Nil
           /\ nw.log = <<"Validate", "GetTeamInfo", "GetUsers">>
           /\ nw.sd.Users = nw.fetched
           /\ DOMAIN nw.sd.UserIndex = { nw.fetched[i].ID : i \in 1..Len(nw.fetched) }
           /\ \A i \in 1..Len(nw.fetched) : nw.sd.UserIndex[nw.fetched[i].ID] = nw.fetched[i])
    /\ (nw.pc = "returned" /\ nw.err # Nil) => ~nw.sd.present

C18_Witness ==
    /\ nw.pc = "returned"
    /\ nw.validated # Nil
    /\ nw.provider.token # ""
    /\ nw.log = <<"Validate">>
    /\ ~nw.sd.present

(***************************************************************************)
(* C20.  Channels are processed one at a time: when the stream hands the   *)
(* next channel to the callback, every channel handed over before has been *)
(* exported and appended to chans; a channel is appended only if its       *)
(* export returned no error; the manifest lists the channels in the order  *)
(* of the stream.                                                          *)
(***************************************************************************)
C20_OneChannelAtATime ==
    [][ /\ Len(streamed') = Len(streamed) + 1
           => (/\ pc = "stream"
               /\ chans = StreamedChans
               /\ chans' = IF result' = Nil
                           THEN Append(chans, streamed'[Len(streamed')].ch)
                           ELSE chans
               /\ result' # Nil => pc' = "returned")
        /\ (Written(fs', BackupFile) /\ ~Written(fs, BackupFile))
           => (/\ Len(streamed) = nChans
               /\ fs'[BackupFile].data = StreamedChans)
        /\ (Written(fs', ManifestFile) /\ ~Written(fs, ManifestFile))
           => fs'[ManifestFile].data =
                SelectSeq(StreamedChans, LAMBDA c : InSeq(c, fs'[ManifestFile].data)) ]_vars

C20_Witness ==
    /\ Returned
    /\ result = Nil
    /\ Len(streamed) = 2
    /\ \A i \in 1..2 : streamed[i].nmsgs > 0
    /\ Written(fs, BackupFile)
    /\ fs[BackupFile].data = StreamedChans
    /\ Written(fs, ManifestFile)
    /\ Len(fs[ManifestFile].data) = 2

====
